---- MODULE Spec2Model ----
(***************************************************************************)
(* A model of Dragon-Runner: fixture resolution (testfile.py), the         *)
(* toolchain runner, the command-line driver (main.py) and the harnesses   *)
(* (harness.py).  Each part has its own specification over the shared      *)
(* variables; the parts a specification does not exercise stay idle.       *)
(***************************************************************************)
EXTENDS Integers, Sequences, FiniteSets, TLC

VARIABLES
    disk,        \* testfile.py: what the fixture finds on disk
    tf,          \* testfile.py: the TestFile object after __init__
    cli_timeout, \* cli_args.timeout
    tc_runner,   \* the ToolChainRunner built for the toolchain
    test,        \* the TestFile being run: expected_out and input_stream
    run,         \* the run of one (executable, toolchain, test) triple
    report,      \* main.py: what the driver logged for the run
    mcfg,        \* main.py: args and config as loaded
    mpc,         \* main.py: where main() stands
    mpos,        \* main.py: the loop indices (exe, toolchain, test)
    pass_count,  \* main.py: pass_count (-1: not bound yet)
    exit_status, \* main.py: the process's exit code (-1: still running)
    m_not_passed, \* history: the runs of main() that did not pass
    hmode,       \* harness.py: the harness class in use
    hcfg,        \* harness.py: the config (executables, toolchains, packages)
    hpc,         \* harness.py: where run()/iterate() stands
    hpos,        \* harness.py: the loop indices of iterate()
    h,           \* harness.py: the harness object and iterate()'s counters
    test_result, \* harness.py: the last value tc_runner.run returned
    run_result,  \* harness.py: what run() returned ("" while running)
    g,           \* history: closed scopes and what the runner returned
    tcfg,        \* harness.py, tournament: config and command line
    tpc,         \* harness.py, tournament: where run()/iterate() stands
    tpos,        \* harness.py, tournament: the loop indices of iterate()
    th,          \* harness.py, tournament: iterate()'s locals and the files
    trun_result, \* harness.py, tournament: what run() returned
    tally,       \* history: tests run and passed per (executable, package)
    env,         \* the programs the steps run: what each did on each input
    rr,          \* a runner used for several tests: the tests and the results
    toolchains_data, \* config.py: the "toolchains" mapping of the config file
    toolchains,  \* config.py: Config.toolchains
    lpc          \* config.py: where the loader stands

tfVars == <<disk, tf>>
runVars == <<cli_timeout, tc_runner, test, run, report>>
mainVars == <<mcfg, mpc, mpos, pass_count, exit_status, m_not_passed>>
harnessVars == <<hmode, hcfg, hpc, hpos, h, test_result, run_result, g>>
vars == <<disk, tf, cli_timeout, tc_runner, test, run, report,
          mcfg, mpc, mpos, pass_count, exit_status, m_not_passed,
          hmode, hcfg, hpc, hpos, h, test_result, run_result, g,
          tcfg, tpc, tpos, th, trun_result, tally,
          env, rr, toolchains_data, toolchains, lpc>>
tourVars == <<tcfg, tpc, tpos, th, trun_result, tally>>
rerunVars == <<env, rr>>
loadVars == <<toolchains_data, toolchains, lpc>>

(***************************************************************************)
(* Bounds.                                                                 *)
(***************************************************************************)
MaxLines == 2

MaxSteps == 2

MaxLen == 2

CliTimeout == 2

MaxDuration == 3

MaxExes == 2

MaxToolchains == 2

MaxTests == 2

MaxFaults == 2

MaxOptions == 2

(***************************************************************************)
(* Python values that are either bytes, None or an error object.           *)
(***************************************************************************)
PyBytes(b) == [kind |-> "bytes", data |-> b]

PyNone == [kind |-> "None", data |-> <<>>]

TestFileError(msg) == [kind |-> "TestFileError", data |-> msg]

\* Python truth of an Optional[bytes]: None and b'' are false.
Truthy(v) == v.kind # "None" /\ ~(v.kind = "bytes" /\ v.data = <<>>)

NL == 10

(***************************************************************************)
(* testfile.py                                                             *)
(***************************************************************************)
\* A file on disk: whether os.path.exists finds it, whether open/read
\* succeeds, and the bytes a successful read returns.
NoFile == [exists |-> FALSE, readable |-> FALSE, data |-> <<>>]

Unreadable == [exists |-> TRUE, readable |-> FALSE, data |-> <<>>]

FileWith(b) == [exists |-> TRUE, readable |-> TRUE, data |-> b]

\* A line of the test file: the position of the comment syntax (-1: none),
\* the directive written on it ("" : none), the position of the directive,
\* and the text after the directive with the newline chopped.
PlainLine == [comment_index |-> -1, directive |-> "", directive_index |-> -1, rhs |-> <<>>]

DirectiveLine(d, r) == [comment_index |-> 0, directive |-> d, directive_index |-> 3, rhs |-> r]

\* the directive stands before the comment syntax: not a directive
CodeLine(d, r) == [comment_index |-> 9, directive |-> d, directive_index |-> 3, rhs |-> r]

get_file_bytes(f) ==
    IF f.exists /\ f.readable THEN PyBytes(f.data) ELSE PyNone

str_to_bytes(rhs) == rhs

RECURSIVE directive_loop(_, _, _, _)
directive_loop(lines, prefix, contents, first_match) ==
    IF lines = <<>> THEN contents
    ELSE LET line == Head(lines)
             directive_index == IF line.directive = prefix THEN line.directive_index ELSE -1
         IN  IF line.comment_index = -1 \/ directive_index = -1
                \/ line.comment_index > directive_index
             THEN directive_loop(Tail(lines), prefix, contents, first_match)
             ELSE directive_loop(Tail(lines), prefix,
                      (IF first_match THEN contents ELSE contents \o <<NL>>)
                          \o str_to_bytes(line.rhs),
                      FALSE)

\* The BytesIO object is always true, so the value (possibly b'') is returned.
get_directive_contents(lines, prefix) ==
    PyBytes(directive_loop(lines, prefix, <<>>, TRUE))

get_file_contents(sym, same) ==
    IF sym.exists THEN get_file_bytes(sym)
    ELSE IF same.exists THEN get_file_bytes(same)
    ELSE PyNone

\* A mutant: the CHECK: directive is consulted before the sibling file.
get_expected_out_DirectiveFirst(d) ==
    LET dir_bytes == get_directive_contents(d.lines, "CHECK:")
        out_bytes == get_file_contents(d.sym_out, d.same_out)
    IN  IF Truthy(dir_bytes) THEN dir_bytes
        ELSE IF Truthy(out_bytes) THEN out_bytes
        ELSE PyBytes(<<>>)

get_expected_out(d) ==
    LET out_bytes == get_file_contents(d.sym_out, d.same_out)
        dir_bytes == get_directive_contents(d.lines, "CHECK:")
        check_file == get_directive_contents(d.lines, "CHECK_FILE:")
    IN  IF Truthy(out_bytes) THEN out_bytes
        ELSE IF Truthy(dir_bytes) THEN dir_bytes
        ELSE IF Truthy(check_file)
             THEN IF ~d.check_ref.exists
                  THEN TestFileError("CHECK_FILE")
                  ELSE get_file_bytes(d.check_ref)
        ELSE PyBytes(<<>>)

get_input_stream(d) ==
    LET out_bytes == get_file_contents(d.sym_ins, d.same_ins)
        dir_bytes == get_directive_contents(d.lines, "INPUT:")
        input_file == get_directive_contents(d.lines, "INPUT_FILE:")
    IN  IF Truthy(out_bytes) THEN out_bytes
        ELSE IF Truthy(dir_bytes) THEN dir_bytes
        ELSE IF Truthy(input_file)
             THEN IF ~d.input_ref.exists
                  THEN TestFileError("INPUT_FILE")
                  ELSE get_file_bytes(d.input_ref)
        ELSE PyBytes(<<>>)

\* verify(): the two attributes, the ErrorCollection it returns (empty when it
\* returns None) and whether len() of a None attribute raised TypeError.
verify(d) ==
    LET expected_out == get_expected_out(d)
        input_stream == get_input_stream(d)
        collection ==
            (IF expected_out.kind = "TestFileError" THEN <<expected_out>> ELSE <<>>)
            \o (IF input_stream.kind = "TestFileError" THEN <<input_stream>> ELSE <<>>)
    IN  [state |-> "constructed",
         expected_out |-> expected_out,
         input_stream |-> input_stream,
         errors |-> collection,
         raised |-> collection = <<>>
                    /\ (expected_out.kind = "None" \/ input_stream.kind = "None")]

NotConstructed ==
    [state |-> "none", expected_out |-> PyNone, input_stream |-> PyNone,
     errors |-> <<>>, raised |-> FALSE]

\* The sets the fixture's surroundings are drawn from.
OutSiblingStates == {NoFile, Unreadable, FileWith(<<>>), FileWith(<<0>>)}

SameDirStates == {NoFile, FileWith(<<1>>)}

RefStates == {NoFile, Unreadable, FileWith(<<>>), FileWith(<<0, 1>>)}

LineSet ==
    {PlainLine, CodeLine("CHECK:", <<1>>),
     DirectiveLine("CHECK:", <<>>), DirectiveLine("CHECK:", <<1>>),
     DirectiveLine("CHECK_FILE:", <<7>>),
     DirectiveLine("INPUT:", <<>>), DirectiveLine("INPUT:", <<1>>),
     DirectiveLine("INPUT_FILE:", <<7>>)}

LinesUpTo(n) == UNION {[1..k -> LineSet] : k \in 0..n}

Disks ==
    [sym_out : OutSiblingStates, same_out : SameDirStates,
     sym_ins : OutSiblingStates, same_ins : SameDirStates,
     check_ref : RefStates, input_ref : RefStates,
     lines : LinesUpTo(MaxLines)]

\* TestFile.__init__: the attributes are set and verify() is called; its
\* return value is dropped.
TestFileInit ==
    /\ tf.state = "none"
    /\ tf' = verify(disk)
    /\ UNCHANGED disk
    /\ UNCHANGED <<runVars, mainVars, harnessVars, tourVars, rerunVars, loadVars>>


(***************************************************************************)
(* toolchain.py, config.py: steps and toolchains as the loader builds them *)
(***************************************************************************)
Get(kw, key, default) == IF key \in DOMAIN kw THEN kw[key] ELSE default

\* Step.__init__(**kwargs)
Step(kw) ==
    [name |-> kw.stepName,
     command |-> kw.command,
     arguments |-> kw.arguments,
     output |-> Get(kw, "output", "-"),
     allow_error |-> Get(kw, "allowError", FALSE),
     uses_ins |-> Get(kw, "usesInStr", FALSE),
     uses_runtime |-> Get(kw, "usesRuntime", FALSE)]

\* ToolChain.__init__(name, steps)
ToolChain(name, steps) == [name |-> name, steps |-> steps]

\* Config.parse_toolchains, for one entry of the "toolchains" mapping
parse_toolchain(name, steps_data) ==
    ToolChain(name, [i \in 1..Len(steps_data) |-> Step(steps_data[i])])

\* The step dictionaries of a configuration file.  An optional key is
\* either absent (<<>>) or present with a value (<<v>>).
StepNames == <<"compile", "link", "run", "check">>

WithOpt(kw, key, opt) == IF opt = <<>> THEN kw ELSE kw @@ (key :> opt[1])

StepData(i, allowError, usesInStr) ==
    WithOpt(WithOpt([stepName |-> StepNames[i], command |-> "cmd", arguments |-> <<>>],
                    "allowError", allowError),
            "usesInStr", usesInStr)

StepsData(n) ==
    {[i \in 1..n |-> StepData(i, opts[i][1], opts[i][2])] :
        opts \in [1..n -> {<<>>, <<TRUE>>, <<FALSE>>} \X {<<>>, <<TRUE>>}]}

\* The "output" key of a step: absent (the default "-"), or a path.
OutputOpts == {<<>>, <<"a.out">>}

WithOutputs(sd, outs) == [i \in 1..Len(sd) |-> WithOpt(sd[i], "output", outs[i])]

ToolChainsOf(n) ==
    {parse_toolchain("tc", WithOutputs(sd, outs)) :
        sd \in StepsData(n), outs \in [1..n -> OutputOpts]}

\* how many options the steps of a chain set between them
Options(tc) ==
    Cardinality({i \in 1..Len(tc.steps) : tc.steps[i].allow_error})
    + Cardinality({i \in 1..Len(tc.steps) : tc.steps[i].uses_ins})
    + Cardinality({i \in 1..Len(tc.steps) : tc.steps[i].output # "-"})

\* The toolchains that are run: those of up to MaxSteps steps that set no
\* more than MaxOptions options.
ToolChains ==
    {tc \in UNION {ToolChainsOf(n) : n \in 1..MaxSteps} : Options(tc) <= MaxOptions}

ByteVals == {0, 1}

Bytes == UNION {[1..n -> ByteVals] : n \in 0..MaxLen}

\* The expected output of the tests that are run: the empty byte string
\* and one of the greatest length; the outputs of the steps range over all
\* of Bytes.
ExpectedOuts ==
    {b \in Bytes : Len(b) \in {0, MaxLen} /\ \A i \in 1..Len(b) : b[i] = i % 2}

(***************************************************************************)
(* The toolchain runner (runner.py), after sections 4.1 to 4.4 of the      *)
(* specification.                                                          *)
(***************************************************************************)
ToolChainRunner(toolchain, timeout) == [tc |-> toolchain, timeout |-> timeout]

\* A mutant: the runner is given a timeout other than the command line's.
new_tc_runner_WrongTimeout(toolchain, timeout) == ToolChainRunner(toolchain, 2 * timeout)

\* harness.py: tc_runner = ToolChainRunner(toolchain, self.cli_args.timeout)
new_tc_runner(toolchain, timeout) == ToolChainRunner(toolchain, timeout)

\* The child process of a step: the step it belongs to, whether it is
\* alive, has exited or was killed, and whether the step's timeout fired.
NoProcess == [step |-> 0, state |-> "none", timer_fired |-> FALSE]

launch(i) == [step |-> i, state |-> "alive", timer_fired |-> FALSE]

\* 7(b), 7(d): the command cannot be launched (binary missing or not
\* executable): an execution error, not a verdict; the chain produces no
\* TestResult.
launch_failed(r) == [r EXCEPT !.state = "ERROR", !.reason = "launch-failure"]

on_exit(p) == [p EXCEPT !.state = "exited"]

\* A mutant: the timeout is noted and the process is left running.
on_timeout_NoKill(p) == [p EXCEPT !.timer_fired = TRUE]

\* 4.1: a process that outlives the timeout is forcibly terminated
on_timeout(p) == [p EXCEPT !.state = "killed", !.timer_fired = TRUE]

\* The files of the scratch location: a function from paths to bytes.
NoFiles == <<>>

Written(files, path, data) ==
    [q \in DOMAIN files \cup {path} |-> IF q = path THEN data ELSE files[q]]

\* 4.1: a step whose output mode is a path leaves its artifact at that
\* path, when its program wrote one (wrote = <<data>>; <<>>: it wrote
\* nothing); files already there are overwritten, none is removed.
materialize(files, step, wrote) ==
    IF step.output = "-" \/ wrote = <<>> THEN files
    ELSE Written(files, step.output, wrote[1])

\* 4.1, 4.2: the output captured from a step: its stdout in mode "-",
\* otherwise the contents of its artifact (no bytes when there is no file)
captured_output(step, stdout, files) ==
    IF step.output = "-" THEN stdout
    ELSE IF step.output \in DOMAIN files THEN files[step.output]
    ELSE <<>>

\* 4.1: cleanup of the scratch location is the runner's, at chain
\* boundaries.  A mutant: the files are left where they are.
chain_boundary_cleanup_Skipped(files) == files

chain_boundary_cleanup(files) == NoFiles

\* What the executor handed back for the last step that completed.
NoneExecuted == [stdout |-> <<>>, wrote |-> <<>>]

\* A run before its first step: input is the buffer of the step that is
\* running, out the output captured from the last step that completed,
\* last what its program printed and wrote, scratch the files of the
\* scratch location.
PendingRun ==
    [state |-> "PENDING", step |-> 0, input |-> <<>>, out |-> <<>>,
     proc |-> NoProcess, log |-> <<>>, last |-> NoneExecuted, scratch |-> NoFiles,
     failing_step |-> "", reason |-> "", gen_output |-> <<>>]

\* The executor's side of a step: the artifact is materialized and the
\* program's stdout handed back.
Execute(r, step, stdout, wrote) ==
    [r EXCEPT !.scratch = materialize(@, step, wrote),
              !.last = [stdout |-> stdout, wrote |-> wrote]]

\* A mutant: a later step is given the previous step's stdout whatever
\* that step's output mode.
StepInput_StdoutOnly(steps, i, prev, t) ==
    IF steps[i].uses_ins THEN t.input_stream
    ELSE IF i = 1 THEN <<>>
    ELSE prev.stdout

\* 4.2: the input buffer of step i, given what the previous step printed
\* (prev.stdout) and the files of the scratch location (prev.files).
StepInput(steps, i, prev, t) ==
    IF steps[i].uses_ins THEN t.input_stream
    ELSE IF i = 1 THEN <<>>
    ELSE captured_output(steps[i - 1], prev.stdout, prev.files)

\* 4.3: exact byte equality
Comparator(gen_output, expected_out) == gen_output = expected_out

Terminal(r) == r.state \in {"PASSED", "FAILED"}

\* the run is over: with a verdict, or with an execution error
Finished(r) == Terminal(r) \/ r.state = "ERROR"

\* What the step executor reports for step i: the exit code, whether the
\* process outlived the command line's timeout, and whether the runner's
\* timeout fired.
Executed(i, duration, exit_code) ==
    [step |-> i,
     exit_code |-> IF duration > tc_runner.timeout THEN -1 ELSE exit_code,
     exceeded |-> duration > cli_timeout,
     timed_out |-> duration > tc_runner.timeout]

\* A mutant: a non-zero exit halts the chain whatever the step's
\* allow_error.
AfterStep_AllowErrorIgnored(r, runner, t, duration, exit_code, out) ==
    LET steps == runner.tc.steps
        i == r.step
        entry == Executed(i, duration, exit_code)
        captured == captured_output(steps[i], out, r.scratch)
        logged == [r EXCEPT !.log = Append(@, entry),
                            !.out = IF entry.timed_out THEN <<>> ELSE captured]
    IN  IF entry.timed_out
        THEN [logged EXCEPT !.state = "FAILED", !.failing_step = steps[i].name,
                            !.reason = "timeout", !.gen_output = <<>>]
        ELSE IF exit_code # 0
        THEN [logged EXCEPT !.state = "FAILED", !.failing_step = steps[i].name,
                            !.reason = "non-zero-exit", !.gen_output = captured]
        ELSE IF i < Len(steps)
        THEN [logged EXCEPT !.step = i + 1,
                            !.input = StepInput(steps, i + 1,
                                          [stdout |-> out, files |-> r.scratch], t)]
        ELSE IF Comparator(captured, t.expected_out)
        THEN [logged EXCEPT !.state = "PASSED", !.gen_output = captured]
        ELSE [logged EXCEPT !.state = "FAILED", !.reason = "output-mismatch",
                            !.gen_output = captured]

\* The run after step r.step has finished (or was killed) with the given
\* duration, exit code and stdout (out), its artifact being in r.scratch.
AfterStep(r, runner, t, duration, exit_code, out) ==
    LET steps == runner.tc.steps
        i == r.step
        entry == Executed(i, duration, exit_code)
        captured == captured_output(steps[i], out, r.scratch)
        logged == [r EXCEPT !.log = Append(@, entry),
                            !.out = IF entry.timed_out THEN <<>> ELSE captured]
    IN  IF entry.timed_out
        THEN [logged EXCEPT !.state = "FAILED", !.failing_step = steps[i].name,
                            !.reason = "timeout", !.gen_output = <<>>]
        ELSE IF exit_code # 0 /\ ~steps[i].allow_error
        THEN [logged EXCEPT !.state = "FAILED", !.failing_step = steps[i].name,
                            !.reason = "non-zero-exit", !.gen_output = captured]
        ELSE IF i < Len(steps)
        THEN [logged EXCEPT !.step = i + 1,
                            !.input = StepInput(steps, i + 1,
                                          [stdout |-> out, files |-> r.scratch], t)]
        ELSE IF Comparator(captured, t.expected_out)
        THEN [logged EXCEPT !.state = "PASSED", !.gen_output = captured]
        ELSE [logged EXCEPT !.state = "FAILED", !.reason = "output-mismatch",
                            !.gen_output = captured]

\* run_toolchain's ToolchainResult and ToolChainRunner.run's TestResult
ToolchainResult(r) ==
    [success |-> r.state = "PASSED" \/ r.reason = "output-mismatch",
     stdout |-> r.gen_output]

TestResult(r) ==
    [did_pass |-> r.state = "PASSED", gen_output |-> r.gen_output,
     failing_step |-> r.failing_step]

\* What ToolChainRunner.run hands to the harness (harness.py line 73): a
\* TestResult, or None when the chain produced none.
ToolChainRunner_run(r) ==
    IF r.state = "ERROR"
    THEN [kind |-> "None", did_pass |-> FALSE, memory_leak |-> FALSE,
          gen_output |-> <<>>]
    ELSE [kind |-> "TestResult", did_pass |-> TestResult(r).did_pass,
          memory_leak |-> FALSE, gen_output |-> TestResult(r).gen_output]

\* utils.precise_diff: a description of the difference, empty when equal
precise_diff(produced, expected) == IF produced = expected THEN "" ELSE "diff"

\* A mutant: the driver compares the output whether or not the chain failed.
main_result_IgnoreSuccess(result, t) ==
    IF precise_diff(result.stdout, t.expected_out) = "" THEN "PASS" ELSE "FAIL"

\* A mutant: the test of the diff is inverted.
main_result_Inverted(result, t) ==
    IF ~result.success THEN "Toolchain Failed"
    ELSE IF precise_diff(result.stdout, t.expected_out) # "" THEN "PASS" ELSE "FAIL"

\* main.py, the body of the loop over the tests: what is logged for a result
main_result(result, t) ==
    IF ~result.success THEN "Toolchain Failed"
    ELSE IF precise_diff(result.stdout, t.expected_out) = "" THEN "PASS" ELSE "FAIL"

\* ToolChainRunner.run(test, exe): the chain begins; what the runner's
\* previous run (prev) left in the scratch location is cleaned up.
start_run(prev, runner, t) ==
    [PendingRun EXCEPT
        !.state = "RUNNING", !.step = 1,
        !.scratch = chain_boundary_cleanup(prev.scratch),
        !.input = StepInput(runner.tc.steps, 1,
                      [stdout |-> <<>>,
                       files |-> chain_boundary_cleanup(prev.scratch)], t)]

\* What the program of a step may print and write: in mode "-" any bytes
\* on stdout and no file; with a path, an artifact or none.
FileModeStdouts == {<<>>, <<0>>}

Stdouts(step) == IF step.output = "-" THEN Bytes ELSE FileModeStdouts

Writes(step) ==
    IF step.output = "-" THEN {<<>>}
    ELSE {<<>>} \cup {<<b>> : b \in ExpectedOuts}

\* PENDING -> RUNNING(step 1)
StartRun ==
    /\ run.state = "PENDING"
    /\ run' = start_run(run, tc_runner, test)
    /\ UNCHANGED <<cli_timeout, tc_runner, test, report>>
    /\ UNCHANGED <<tfVars, mainVars, harnessVars, tourVars, rerunVars, loadVars>>

\* RUNNING(step i): the step's command is launched as a child process,
\* or cannot be launched
StepLaunch ==
    /\ run.state = "RUNNING"
    /\ run.proc.step < run.step
    /\ \E launched \in BOOLEAN :
          run' = IF launched THEN [run EXCEPT !.proc = launch(run.step)]
                 ELSE launch_failed(run)
    /\ UNCHANGED <<cli_timeout, tc_runner, test, report>>
    /\ UNCHANGED <<tfVars, mainVars, harnessVars, tourVars, rerunVars, loadVars>>

\* the process terminates within the runner's timeout
ProcessExits ==
    /\ run.state = "RUNNING"
    /\ run.proc.step = run.step /\ run.proc.state = "alive"
    /\ \E duration \in 1..MaxDuration : duration <= tc_runner.timeout
    /\ run' = [run EXCEPT !.proc = on_exit(run.proc)]
    /\ UNCHANGED <<cli_timeout, tc_runner, test, report>>
    /\ UNCHANGED <<tfVars, mainVars, harnessVars, tourVars, rerunVars, loadVars>>

\* the process does not terminate within the runner's timeout
TimeoutFires ==
    /\ run.state = "RUNNING"
    /\ run.proc.step = run.step /\ run.proc.state = "alive"
    /\ ~run.proc.timer_fired
    /\ \E duration \in 1..MaxDuration : duration > tc_runner.timeout
    /\ run' = [run EXCEPT !.proc = on_timeout(run.proc)]
    /\ UNCHANGED <<cli_timeout, tc_runner, test, report>>
    /\ UNCHANGED <<tfVars, mainVars, harnessVars, tourVars, rerunVars, loadVars>>

\* RUNNING(step i): the executor hands back the exit code and the stdout
\* and materializes the artifact; the runner goes on to the next step or
\* to the verdict
ExecStep ==
    /\ run.state = "RUNNING"
    /\ run.proc.step = run.step
    /\ run.proc.state = "exited" \/ run.proc.timer_fired
    /\ \E duration \in 1..MaxDuration, exit_code \in {0, 1},
          out \in Stdouts(tc_runner.tc.steps[run.step]),
          wrote \in Writes(tc_runner.tc.steps[run.step]) :
          /\ (duration > tc_runner.timeout) = run.proc.timer_fired
          /\ run' = AfterStep(Execute(run, tc_runner.tc.steps[run.step], out, wrote),
                              tc_runner, test, duration, exit_code, out)
    /\ UNCHANGED <<cli_timeout, tc_runner, test, report>>
    /\ UNCHANGED <<tfVars, mainVars, harnessVars, tourVars, rerunVars, loadVars>>

\* main.py: the driver judges the result of run_toolchain
MainReport ==
    /\ Finished(run)
    /\ report = "" /\ g.ran = 0
    /\ report' = main_result(ToolchainResult(run), test)
    /\ UNCHANGED <<cli_timeout, tc_runner, test, run>>
    /\ UNCHANGED <<tfVars, mainVars, harnessVars, tourVars, rerunVars, loadVars>>

(***************************************************************************)
(* main.py: main()                                                         *)
(***************************************************************************)
\* What load_config and parse_cli_args hand to main(): whether the config
\* has errors, whether a grade file was given, how many executables and
\* toolchains there are, and the tests with their expected output.
MainOutputs == {<<>>, <<1>>}

MainConfigs ==
    [errors : BOOLEAN, grade_file : BOOLEAN,
     n_exes : 0..MaxExes, n_toolchains : 0..MaxToolchains,
     tests : UNION {[1..n -> [expected_out : MainOutputs]] : n \in 0..MaxTests}]

\* lines 27-37: a config with errors exits 1, grade mode returns
MainLoad ==
    /\ mpc = "load"
    /\ IF mcfg.errors THEN mpc' = "done" /\ exit_status' = 1
       ELSE IF mcfg.grade_file THEN mpc' = "done" /\ exit_status' = 0
       ELSE mpc' = "exe" /\ UNCHANGED exit_status
    /\ UNCHANGED <<mcfg, mpos, pass_count, m_not_passed>>
    /\ UNCHANGED <<tfVars, runVars, harnessVars, tourVars, rerunVars, loadVars>>

\* line 40: for exe in config.executables
MainForExe ==
    /\ mpc = "exe"
    /\ IF mpos.exe < mcfg.n_exes
       THEN mpos' = [mpos EXCEPT !.exe = @ + 1, !.tc = 0] /\ mpc' = "tc"
       ELSE mpc' = "exit" /\ UNCHANGED mpos
    /\ UNCHANGED <<mcfg, pass_count, exit_status, m_not_passed>>
    /\ UNCHANGED <<tfVars, runVars, harnessVars, tourVars, rerunVars, loadVars>>

\* lines 43-45: for toolchain in config.toolchains: pass_count = 0
MainForToolchain ==
    /\ mpc = "tc"
    /\ IF mpos.tc < mcfg.n_toolchains
       THEN /\ mpos' = [mpos EXCEPT !.tc = @ + 1, !.test = 0]
            /\ pass_count' = 0
            /\ mpc' = "test"
       ELSE mpc' = "exe" /\ UNCHANGED <<mpos, pass_count>>
    /\ UNCHANGED <<mcfg, exit_status, m_not_passed>>
    /\ UNCHANGED <<tfVars, runVars, harnessVars, tourVars, rerunVars, loadVars>>

\* lines 46-59: for test in config.tests: run the toolchain, judge the result
MainForTest ==
    /\ mpc = "test"
    /\ IF mpos.test < Len(mcfg.tests)
       THEN \E result \in [success : BOOLEAN, stdout : MainOutputs] :
               LET t == mcfg.tests[mpos.test + 1]
                   passed == main_result(result, t) = "PASS"
               IN  /\ mpos' = [mpos EXCEPT !.test = @ + 1]
                   /\ pass_count' = IF passed THEN pass_count + 1 ELSE pass_count
                   /\ m_not_passed' = IF passed THEN m_not_passed ELSE m_not_passed + 1
                   /\ UNCHANGED mpc
       ELSE mpc' = "tc" /\ UNCHANGED <<mpos, pass_count, m_not_passed>>
    /\ UNCHANGED <<mcfg, exit_status>>
    /\ UNCHANGED <<tfVars, runVars, harnessVars, tourVars, rerunVars, loadVars>>

\* lines 61-64: the exit code; an unbound pass_count raises NameError, and
\* the interpreter exits 1
MainExit ==
    /\ mpc = "exit"
    /\ exit_status' = IF pass_count = -1 THEN 1
                    ELSE IF pass_count = Len(mcfg.tests) THEN 0 ELSE 1
    /\ mpc' = "done"
    /\ UNCHANGED <<mcfg, mpos, pass_count, m_not_passed>>
    /\ UNCHANGED <<tfVars, runVars, harnessVars, tourVars, rerunVars, loadVars>>

MainStartPos == [exe |-> 0, tc |-> 0, test |-> 0]


(***************************************************************************)
(* harness.py: TestHarness.run / iterate and the process_test_result of    *)
(* RegularHarness, MemoryCheckHarness and PerformanceTestingHarness.       *)
(***************************************************************************)
\* What tc_runner.run returns: a TestResult, or None.
NoResult == [kind |-> "None", did_pass |-> FALSE, memory_leak |-> FALSE]

Result(did_pass, memory_leak) ==
    [kind |-> "TestResult", did_pass |-> did_pass, memory_leak |-> memory_leak]

RunnerReturns == {NoResult} \cup {Result(p, l) : p \in BOOLEAN, l \in BOOLEAN}

CleanPass == Result(TRUE, FALSE)

Zero == [pass_count |-> 0, test_count |-> 0]

Plus(a, b) ==
    [pass_count |-> a.pass_count + b.pass_count,
     test_count |-> a.test_count + b.test_count]

\* TestHarness.__init__ / MemoryCheckHarness.__init__, and the counters of
\* iterate() before the loops
NewHarness ==
    [failures |-> <<>>, leak_tests |-> <<>>, test_count |-> 0, leak_log |-> <<>>,
     counters |-> Zero, pkg |-> Zero, tc |-> Zero, exe |-> Zero]

\* A mutant: the test is counted only when a result was received.
Regular_process_test_result_SkipMissing(o, r) ==
    IF r.kind = "None" THEN o
    ELSE IF r.did_pass
    THEN [o EXCEPT !.counters.pass_count = @ + 1, !.counters.test_count = @ + 1]
    ELSE [o EXCEPT !.failures = Append(@, r), !.counters.test_count = @ + 1]

\* RegularHarness.process_test_result
Regular_process_test_result(o, r) ==
    LET o1 == IF r.kind = "None" THEN o
              ELSE IF r.did_pass THEN [o EXCEPT !.counters.pass_count = @ + 1]
              ELSE [o EXCEPT !.failures = Append(@, r)]
    IN  [o1 EXCEPT !.counters.test_count = @ + 1]

\* A mutant: a leak is tracked only for a result that did not pass.
MemoryCheck_process_test_result_LeakOnlyOnFail(o, r) ==
    LET o1 == [o EXCEPT !.test_count = @ + 1, !.counters.test_count = @ + 1]
    IN  IF r.kind = "None" THEN o1
        ELSE IF r.did_pass THEN [o1 EXCEPT !.counters.pass_count = @ + 1]
        ELSE IF r.memory_leak
        THEN [o1 EXCEPT !.leak_tests = Append(@, r), !.failures = Append(@, r)]
        ELSE [o1 EXCEPT !.failures = Append(@, r)]

\* A mutant: a passing result that leaked is recorded as a failure.
MemoryCheck_process_test_result_LeakIsFailure(o, r) ==
    LET o1 == [o EXCEPT !.test_count = @ + 1, !.counters.test_count = @ + 1]
        o2 == IF r.memory_leak THEN [o1 EXCEPT !.leak_tests = Append(@, r)] ELSE o1
    IN  IF r.kind = "None" THEN o1
        ELSE IF r.did_pass /\ ~r.memory_leak
        THEN [o2 EXCEPT !.counters.pass_count = @ + 1]
        ELSE [o2 EXCEPT !.failures = Append(@, r)]

\* MemoryCheckHarness.process_test_result
MemoryCheck_process_test_result(o, r) ==
    LET o1 == [o EXCEPT !.test_count = @ + 1, !.counters.test_count = @ + 1]
        o2 == IF r.memory_leak THEN [o1 EXCEPT !.leak_tests = Append(@, r)] ELSE o1
    IN  IF r.kind = "None" THEN o1
        ELSE IF r.did_pass THEN [o2 EXCEPT !.counters.pass_count = @ + 1]
        ELSE [o2 EXCEPT !.failures = Append(@, r)]

\* PerformanceTestingHarness.process_test_result
Performance_process_test_result(o, r) ==
    LET o1 == IF r.kind = "None" THEN o
              ELSE IF r.did_pass THEN [o EXCEPT !.counters.pass_count = @ + 1]
              ELSE [o EXCEPT !.failures = Append(@, r)]
    IN  [o1 EXCEPT !.counters.test_count = @ + 1]

\* self.process_test_result(test_result, counters), by class
process_test_result(mode, o, r) ==
    CASE mode = "regular" -> Regular_process_test_result(o, r)
      [] mode = "memcheck" -> MemoryCheck_process_test_result(o, r)
      [] mode = "perf" -> Performance_process_test_result(o, r)

\* post_executable_hook: MemoryCheckHarness logs "Total Leaked:
\* <len(leak_tests)>/<test_count>" and resets its leak tally; the other
\* classes inherit the empty hook.
post_executable_hook(mode, o) ==
    IF mode = "memcheck"
    THEN [o EXCEPT !.leak_log = Append(@, <<Len(o.leak_tests), o.test_count>>),
                   !.leak_tests = <<>>, !.test_count = 0]
    ELSE o

\* The packages of a config: each package is the sequence of its
\* subpackages, each subpackage the number of its tests.
PackageShapes ==
    { << <<MaxTests>> >>,
      << <<1, MaxTests>>, <<0>>, <<1>> >> }

HarnessConfigs ==
    [n_exes : 1..MaxExes, n_toolchains : 1..MaxToolchains, packages : PackageShapes]

HarnessStartPos == [exe |-> 0, tc |-> 0, pkg |-> 0, spkg |-> 0, test |-> 0]

\* The hook calls of iterate(): how many times each hook was called, and
\* the counters the last post_subpackage_hook call received.
NoHooks ==
    [pre_exe |-> 0, post_exe |-> 0, pre_spkg |-> 0, post_spkg |-> 0,
     received |-> Zero]

\* self.pre_executable_hook() (line 54)
call_pre_executable_hook(k) == [k EXCEPT !.pre_exe = @ + 1]

\* self.post_executable_hook() (line 86)
call_post_executable_hook(k) == [k EXCEPT !.post_exe = @ + 1]

\* self.pre_subpackage_hook(spkg) (line 71)
call_pre_subpackage_hook(k) == [k EXCEPT !.pre_spkg = @ + 1]

\* A mutant: the hook is handed a fresh pair of counters.
call_post_subpackage_hook_FreshCounters(k, counters) ==
    [k EXCEPT !.post_spkg = @ + 1, !.received = Zero]

\* self.post_subpackage_hook(counters) (line 75)
call_post_subpackage_hook(k, counters) ==
    [k EXCEPT !.post_spkg = @ + 1, !.received = counters]

\* The history of a run: the pairs of the scopes closed so far, the
\* results the runner returned (in all, and for the current executable:
\* exe_ran, leaks), and reg, the failures and counters a
\* RegularHarness holds when fed the same results.
NoHistory ==
    [spkgs |-> <<>>, pkgs |-> <<>>, tcs |-> <<>>,
     ran |-> 0, not_passed |-> 0, missing |-> 0, faults |-> 0,
     exe_ran |-> 0, leaks |-> 0,
     reg |-> [failures |-> <<>>, counters |-> Zero],
     hooks |-> NoHooks]

\* run(): try: self.iterate()
HRun ==
    /\ hpc = "run"
    /\ hpc' = "exe"
    /\ UNCHANGED <<hmode, hcfg, hpos, h, test_result, run_result, g>>
    /\ UNCHANGED <<tfVars, runVars, mainVars, tourVars, rerunVars, loadVars>>

\* for exe in self.config.executables, with pre_executable_hook (lines
\* 53-58); after the last one
\* iterate() returns and run() returns len(self.failures) == 0 (line 95)
HForExe ==
    /\ hpc = "exe"
    /\ IF hpos.exe < hcfg.n_exes
       THEN /\ hpos' = [hpos EXCEPT !.exe = @ + 1, !.tc = 0]
            /\ h' = [h EXCEPT !.exe = Zero]
            /\ g' = [g EXCEPT !.tcs = <<>>, !.exe_ran = 0, !.leaks = 0,
                              !.hooks = call_pre_executable_hook(@)]
            /\ hpc' = "tc"
            /\ UNCHANGED run_result
       ELSE /\ run_result' = IF Len(h.failures) = 0 THEN "True" ELSE "False"
            /\ hpc' = "returned"
            /\ UNCHANGED <<hpos, h, g>>
    /\ UNCHANGED <<hmode, hcfg, test_result>>
    /\ UNCHANGED <<tfVars, runVars, mainVars, tourVars, rerunVars, loadVars>>

\* for toolchain in self.config.toolchains (lines 59-63); after the last
\* one the executable is logged and post_executable_hook runs (85-86)
HForToolchain ==
    /\ hpc = "tc"
    /\ IF hpos.tc < hcfg.n_toolchains
       THEN /\ hpos' = [hpos EXCEPT !.tc = @ + 1, !.pkg = 0]
            /\ h' = [h EXCEPT !.tc = Zero]
            /\ g' = [g EXCEPT !.pkgs = <<>>]
            /\ hpc' = "pkg"
       ELSE /\ h' = post_executable_hook(hmode, h)
            /\ g' = [g EXCEPT !.hooks = call_post_executable_hook(@)]
            /\ hpc' = "exe"
            /\ UNCHANGED hpos
    /\ UNCHANGED <<hmode, hcfg, test_result, run_result>>
    /\ UNCHANGED <<tfVars, runVars, mainVars, tourVars, rerunVars, loadVars>>

\* for pkg in self.config.packages (lines 64-67); after the last one the
\* toolchain's pair is added to the executable's (82-84)
HForPackage ==
    /\ hpc = "pkg"
    /\ IF hpos.pkg < Len(hcfg.packages)
       THEN /\ hpos' = [hpos EXCEPT !.pkg = @ + 1, !.spkg = 0]
            /\ h' = [h EXCEPT !.pkg = Zero]
            /\ g' = [g EXCEPT !.spkgs = <<>>]
            /\ hpc' = "spkg"
       ELSE /\ h' = [h EXCEPT !.exe = Plus(@, h.tc)]
            /\ g' = [g EXCEPT !.tcs = Append(@, h.tc)]
            /\ hpc' = "tc"
            /\ UNCHANGED hpos
    /\ UNCHANGED <<hmode, hcfg, test_result, run_result>>
    /\ UNCHANGED <<tfVars, runVars, mainVars, tourVars, rerunVars, loadVars>>

\* for spkg in pkg.subpackages, with fresh counters and
\* pre_subpackage_hook (lines 68-71); after the last one the
\* package's pair is added to the toolchain's (79-81)
HForSubpackage ==
    /\ hpc = "spkg"
    /\ IF hpos.spkg < Len(hcfg.packages[hpos.pkg])
       THEN /\ hpos' = [hpos EXCEPT !.spkg = @ + 1, !.test = 0]
            /\ h' = [h EXCEPT !.counters = Zero]
            /\ g' = [g EXCEPT !.reg.counters = Zero,
                              !.hooks = call_pre_subpackage_hook(@)]
            /\ hpc' = "test"
       ELSE /\ h' = [h EXCEPT !.tc = Plus(@, h.pkg)]
            /\ g' = [g EXCEPT !.pkgs = Append(@, h.pkg)]
            /\ hpc' = "pkg"
            /\ UNCHANGED hpos
    /\ UNCHANGED <<hmode, hcfg, test_result, run_result>>
    /\ UNCHANGED <<tfVars, runVars, mainVars, tourVars, rerunVars, loadVars>>

\* for test in spkg.tests: run it and process the result (lines 72-74);
\* after the last one post_subpackage_hook is handed the counters and
\* the subpackage's pair is added to the package's (75-78)
HForTest ==
    /\ hpc = "test"
    /\ IF hpos.test < hcfg.packages[hpos.pkg][hpos.spkg]
       THEN \E r \in RunnerReturns :
               /\ r = CleanPass \/ g.faults < MaxFaults
               /\ test_result' = r
               /\ h' = process_test_result(hmode, h, r)
               /\ hpos' = [hpos EXCEPT !.test = @ + 1]
               /\ g' = [g EXCEPT !.ran = @ + 1,
                                 !.not_passed = IF r.did_pass THEN @ ELSE @ + 1,
                                 !.missing = IF r.kind = "None" THEN @ + 1 ELSE @,
                                 !.faults = IF r = CleanPass THEN @ ELSE @ + 1,
                                 !.exe_ran = @ + 1,
                                 !.leaks = IF r.memory_leak THEN @ + 1 ELSE @,
                                 !.reg = Regular_process_test_result(@, r)]
               /\ UNCHANGED hpc
       ELSE /\ h' = [h EXCEPT !.pkg = Plus(@, h.counters)]
            /\ g' = [g EXCEPT !.spkgs = Append(@, h.counters),
                              !.hooks = call_post_subpackage_hook(@, h.counters)]
            /\ hpc' = "spkg"
            /\ UNCHANGED <<hpos, test_result>>
    /\ UNCHANGED <<hmode, hcfg, run_result>>
    /\ UNCHANGED <<tfVars, runVars, mainVars, tourVars, rerunVars, loadVars>>

(***************************************************************************)
(* harness.py: TournamentHarness                                           *)
(***************************************************************************)
\* Identifiers and names are strings, written as sequences of character
\* codes: "a" is <<97>>, "B" is <<66>>.
lower(c) == IF c \in 65..90 THEN c + 32 ELSE c

str_lower(str) == [i \in 1..Len(str) |-> lower(str[i])]

\* str < str in Python: the first differing character decides, a proper
\* prefix is smaller
RECURSIVE str_less(_, _)
str_less(a, b) ==
    IF b = <<>> THEN FALSE
    ELSE IF a = <<>> THEN TRUE
    ELSE IF Head(a) # Head(b) THEN Head(a) < Head(b)
    ELSE str_less(Tail(a), Tail(b))

\* sorted(items, key=...): stable, over a sequence of [key, val] records
RECURSIVE insert_sorted(_, _)
insert_sorted(done, x) ==
    IF done = <<>> THEN <<x>>
    ELSE IF str_less(x.key, Head(done).key) THEN <<x>> \o done
    ELSE <<Head(done)>> \o insert_sorted(Tail(done), x)

RECURSIVE sorted_from(_, _)
sorted_from(done, rest) ==
    IF rest = <<>> THEN done
    ELSE sorted_from(insert_sorted(done, Head(rest)), Tail(rest))

\* A mutant: the identifiers are compared as written, not in lower case.
sorted_lower_CaseSensitive(names) ==
    LET keyed == [i \in 1..Len(names) |-> [key |-> names[i], val |-> names[i]]]
        out == sorted_from(<<>>, keyed)
    IN  [i \in 1..Len(out) |-> out[i].val]

\* sorted(..., key=lambda x: x.name.lower()), on the names
sorted_lower(names) ==
    LET keyed == [i \in 1..Len(names) |-> [key |-> str_lower(names[i]), val |-> names[i]]]
        out == sorted_from(<<>>, keyed)
    IN  [i \in 1..Len(out) |-> out[i].val]

\* Package.n_tests: the number of tests of the package's subpackages
RECURSIVE SumSeq(_)
SumSeq(ns) == IF ns = <<>> THEN 0 ELSE Head(ns) + SumSeq(Tail(ns))

n_tests(pkg) == SumSeq(pkg.subpackages)

\* create_tc_dataframe: every cell the empty string
create_tc_dataframe(defenders, attackers) ==
    [e \in {defenders[i] : i \in 1..Len(defenders)} |->
        [p \in {attackers[i].name : i \in 1..Len(attackers)} |-> ""]]

\* A mutant: the counters of the previous pair are kept.
new_counters_Carried(pkg) ==
    [pass_count |-> th.counters.pass_count, test_count |-> n_tests(pkg)]

\* line 164: counters = {"pass_count": 0, "test_count": a_pkg.n_tests}
new_counters(pkg) == [pass_count |-> 0, test_count |-> n_tests(pkg)]

\* line 183: f"{counters['pass_count']} / {counters['test_count']}"
cell_value(counters) ==
    ToString(counters.pass_count) \o " / " \o ToString(counters.test_count)

\* TestResult.test: the result's reference to its test, here the test's path
ForTest(r, path) ==
    [kind |-> r.kind, did_pass |-> r.did_pass, memory_leak |-> r.memory_leak,
     test |-> path]

\* A mutant: the failure log takes the failures of every executable.
Tournament_process_test_result_LogAll(o, r, context) ==
    IF r.kind = "None" THEN [o EXCEPT !.raised = TRUE]
    ELSE IF r.did_pass THEN [o EXCEPT !.counters.pass_count = @ + 1]
    ELSE LET fb == [o EXCEPT !.feedback[context.def_feedback_file] = @ + 1]
         IN  IF context.failure_log
             THEN [fb EXCEPT !.failure_log =
                      Append(@, <<context.toolchain_name, context.a_pkg_name, r.test>>)]
             ELSE fb

\* TournamentHarness.process_test_result.  A missing result reaches
\* test.stem, a name that is not bound there: NameError.
Tournament_process_test_result(o, r, context) ==
    IF r.kind = "None" THEN [o EXCEPT !.raised = TRUE]
    ELSE IF r.did_pass THEN [o EXCEPT !.counters.pass_count = @ + 1]
    ELSE LET fb == [o EXCEPT !.feedback[context.def_feedback_file] = @ + 1]
         IN  IF context.solution_exe = context.def_exe_id /\ context.failure_log
             THEN [fb EXCEPT !.failure_log =
                      Append(@, <<context.toolchain_name, context.a_pkg_name, r.test>>)]
             ELSE fb

\* The configs of a tournament: the executables' ids and the packages in
\* the order the config lists them.
ConfiguredExes == <<<<66>>, <<97>>, <<99>>, <<100>>>>

ExeIds == {ConfiguredExes[i] : i \in 1..Len(ConfiguredExes)}

ExeLists == {SubSeq(ConfiguredExes, 1, n) : n \in 1..MaxExes}

\* Two packages: one with 5 tests in two subpackages, one with a single
\* test.
TournamentPackages ==
    << [name |-> <<66>>, subpackages |-> <<3, 2>>],
       [name |-> <<97>>, subpackages |-> <<1>>] >>

TournamentConfigs ==
    [n_toolchains : 0..MaxToolchains, executables : ExeLists,
     packages : {TournamentPackages}, solution_exe : {<<97>>},
     failure_log : BOOLEAN]

\* What tc_runner.run returns in a tournament; the harness does not read
\* the leak signal.
TournamentReturns == {NoResult, Result(TRUE, FALSE), Result(FALSE, FALSE)}

TournamentStartPos == [tc |-> 0, exe |-> 0, pkg |-> 0, spkg |-> 0, test |-> 0]

FeedbackFiles == ExeIds \X (1..(MaxToolchains + 1))

\* iterate()'s locals before the loops and the files it writes, with the
\* history of the run: faults, ran, not_passed (the results returned so
\* far), failed (failing results per executable and toolchain), ref_failed
\* (the failing results of the solution executable), prev and last (the
\* positions of the last two tests run).
NewTournament ==
    [attacking_pkgs |-> <<>>, defending_exes |-> <<>>, tc_table |-> <<>>,
     counters |-> Zero, context_bound |-> FALSE, raised |-> FALSE,
     failures |-> <<>>, csv |-> <<>>,
     feedback |-> [f \in FeedbackFiles |-> 0], failure_log |-> <<>>,
     test_result |-> ForTest(NoResult, <<>>), faults |-> 0,
     ran |-> 0, not_passed |-> 0, failed |-> [f \in FeedbackFiles |-> 0],
     ref_failed |-> <<>>, prev |-> <<>>, last |-> <<>>]

NoTally ==
    [e \in ExeIds |->
        [p \in {TournamentPackages[i].name : i \in 1..Len(TournamentPackages)} |-> Zero]]

\* the context dictionary of lines 168-176
Context ==
    [def_feedback_file |-> <<th.defending_exes[tpos.exe], tpos.tc>>,
     solution_exe |-> tcfg.solution_exe,
     failure_log |-> tcfg.failure_log,
     toolchain_name |-> tpos.tc,
     a_pkg_name |-> th.attacking_pkgs[tpos.pkg].name,
     def_exe_id |-> th.defending_exes[tpos.exe]]

\* run(): try: self.iterate(); lines 147-151
TRun ==
    /\ tpc = "run"
    /\ th' = [th EXCEPT
               !.attacking_pkgs =
                   LET names == sorted_lower([i \in 1..Len(tcfg.packages) |->
                                                 tcfg.packages[i].name])
                   IN  [i \in 1..Len(names) |->
                          CHOOSE p \in {tcfg.packages[k] : k \in 1..Len(tcfg.packages)} :
                              p.name = names[i]],
               !.defending_exes = sorted_lower(tcfg.executables)]
    /\ tpc' = "tc"
    /\ UNCHANGED <<tcfg, tpos, trun_result, tally>>
    /\ UNCHANGED <<tfVars, runVars, mainVars, harnessVars, rerunVars, loadVars>>

\* for toolchain in self.config.toolchains (lines 153-155); after the last
\* one iterate() returns context["exit_status"] (unbound when no toolchain
\* ran: an exception, and run() returns False), run() drops that value
\* and returns len(self.failures) == 0
TForToolchain ==
    /\ tpc = "tc"
    /\ IF tpos.tc < tcfg.n_toolchains
       THEN /\ tpos' = [tpos EXCEPT !.tc = @ + 1, !.exe = 0]
            /\ th' = [th EXCEPT !.tc_table =
                        create_tc_dataframe(th.defending_exes, th.attacking_pkgs)]
            /\ tally' = NoTally
            /\ tpc' = "exe"
            /\ UNCHANGED trun_result
       ELSE /\ trun_result' = IF ~th.context_bound THEN "False"
                              ELSE IF Len(th.failures) = 0 THEN "True" ELSE "False"
            /\ th' = [th EXCEPT !.raised = ~th.context_bound]
            /\ tpc' = "returned"
            /\ UNCHANGED <<tpos, tally>>
    /\ UNCHANGED tcfg
    /\ UNCHANGED <<tfVars, runVars, mainVars, harnessVars, rerunVars, loadVars>>

\* for def_exe in defending_exes (lines 160-162); after the last one the
\* toolchain's table is written to the CSV file (187-189)
TForExe ==
    /\ tpc = "exe"
    /\ IF tpos.exe < Len(th.defending_exes)
       THEN /\ tpos' = [tpos EXCEPT !.exe = @ + 1, !.pkg = 0]
            /\ tpc' = "pkg"
            /\ UNCHANGED th
       ELSE /\ th' = [th EXCEPT !.csv = Append(@, th.tc_table)]
            /\ tpc' = "tc"
            /\ UNCHANGED tpos
    /\ UNCHANGED <<tcfg, trun_result, tally>>
    /\ UNCHANGED <<tfVars, runVars, mainVars, harnessVars, rerunVars, loadVars>>

\* for a_pkg in attacking_pkgs: new counters and context (lines 163-176)
TForPackage ==
    /\ tpc = "pkg"
    /\ IF tpos.pkg < Len(th.attacking_pkgs)
       THEN /\ tpos' = [tpos EXCEPT !.pkg = @ + 1, !.spkg = 0]
            /\ th' = [th EXCEPT !.counters = new_counters(th.attacking_pkgs[tpos.pkg + 1]),
                              !.context_bound = TRUE]
            /\ tpc' = "spkg"
       ELSE /\ tpc' = "exe"
            /\ UNCHANGED <<tpos, th>>
    /\ UNCHANGED <<tcfg, trun_result, tally>>
    /\ UNCHANGED <<tfVars, runVars, mainVars, harnessVars, rerunVars, loadVars>>

\* for a_spkg in a_pkg.subpackages (line 178); after the last one the cell
\* of the pair is written (183-184)
TForSubpackage ==
    /\ tpc = "spkg"
    /\ IF tpos.spkg < Len(th.attacking_pkgs[tpos.pkg].subpackages)
       THEN /\ tpos' = [tpos EXCEPT !.spkg = @ + 1, !.test = 0]
            /\ tpc' = "test"
            /\ UNCHANGED th
       ELSE /\ th' = [th EXCEPT !.tc_table[th.defending_exes[tpos.exe]]
                                        [th.attacking_pkgs[tpos.pkg].name] =
                                  cell_value(th.counters)]
            /\ tpc' = "pkg"
            /\ UNCHANGED tpos
    /\ UNCHANGED <<tcfg, trun_result, tally>>
    /\ UNCHANGED <<tfVars, runVars, mainVars, harnessVars, rerunVars, loadVars>>

\* for test in a_spkg.tests: run it and process the result (179-181); an
\* exception leaves iterate() and run() returns False (92-94)
TForTest ==
    /\ tpc = "test"
    /\ IF tpos.test < th.attacking_pkgs[tpos.pkg].subpackages[tpos.spkg]
       THEN \E returned \in TournamentReturns :
               LET r == ForTest(returned, <<tpos.pkg, tpos.spkg, tpos.test + 1>>)
                   e == th.defending_exes[tpos.exe]
                   failing == returned.kind = "TestResult" /\ ~returned.did_pass
                   o == Tournament_process_test_result(
                            [th EXCEPT !.test_result = r,
                                      !.faults = IF returned = CleanPass THEN @ ELSE @ + 1,
                                      !.ran = @ + 1,
                                      !.not_passed = IF returned.did_pass THEN @ ELSE @ + 1,
                                      !.failed[<<e, tpos.tc>>] = IF failing THEN @ + 1 ELSE @,
                                      !.ref_failed =
                                          IF failing /\ e = tcfg.solution_exe
                                          THEN Append(@, <<tpos.tc, th.attacking_pkgs[tpos.pkg].name, r.test>>)
                                          ELSE @,
                                      !.prev = th.last,
                                      !.last = <<tpos.exe, tpos.tc, tpos.pkg, tpos.spkg, tpos.test + 1>>],
                            r, Context)
                   p == th.attacking_pkgs[tpos.pkg].name
               IN  /\ returned = CleanPass \/ th.faults < MaxFaults
                   /\ th' = o
                   /\ tally' = [tally EXCEPT ![e][p] =
                                   [pass_count |-> @.pass_count + (IF r.did_pass THEN 1 ELSE 0),
                                    test_count |-> @.test_count + 1]]
                   /\ IF o.raised
                      THEN tpc' = "returned" /\ trun_result' = "False" /\ UNCHANGED tpos
                      ELSE /\ tpos' = [tpos EXCEPT !.test = @ + 1]
                           /\ UNCHANGED <<tpc, trun_result>>
       ELSE /\ tpc' = "spkg"
            /\ UNCHANGED <<tpos, th, trun_result, tally>>
    /\ UNCHANGED tcfg
    /\ UNCHANGED <<tfVars, runVars, mainVars, harnessVars, rerunVars, loadVars>>

(***************************************************************************)
(* Specifications.  The parts a specification does not exercise are idle.  *)
(***************************************************************************)
NoEnv == <<>>

IdleLoader == [at |-> "idle", read |-> <<>>]

IdleRerun == [tests |-> <<>>, next |-> 0, phase |-> "idle", results |-> <<>>]

IdleDisk ==
    [sym_out |-> NoFile, same_out |-> NoFile, sym_ins |-> NoFile,
     same_ins |-> NoFile, check_ref |-> NoFile, input_ref |-> NoFile,
     lines |-> <<>>]

IdleRunner == new_tc_runner(ToolChain("tc", <<>>), CliTimeout)

IdleTest == [expected_out |-> <<>>, input_stream |-> <<>>]

IdleMainConfig ==
    [errors |-> FALSE, grade_file |-> FALSE, n_exes |-> 0, n_toolchains |-> 0,
     tests |-> <<>>]

IdleHarnessConfig == [n_exes |-> 0, n_toolchains |-> 0, packages |-> <<>>]

IdleTournamentConfig ==
    [n_toolchains |-> 0, executables |-> <<>>, packages |-> <<>>,
     solution_exe |-> <<>>, failure_log |-> FALSE]

\* Fixture resolution: a fixture's surroundings are chosen, then the
\* TestFile is constructed.
TFInit ==
    /\ disk \in Disks
    /\ tf = NotConstructed
    /\ cli_timeout = CliTimeout
    /\ tc_runner = IdleRunner
    /\ test = IdleTest
    /\ run = PendingRun
    /\ report = ""
    /\ mcfg = IdleMainConfig
    /\ mpc = "idle"
    /\ mpos = MainStartPos
    /\ pass_count = -1
    /\ exit_status = -1
    /\ m_not_passed = 0
    /\ hmode = "regular"
    /\ hcfg = IdleHarnessConfig
    /\ hpc = "idle"
    /\ hpos = HarnessStartPos
    /\ h = NewHarness
    /\ test_result = NoResult
    /\ run_result = ""
    /\ g = NoHistory
    /\ tcfg = IdleTournamentConfig
    /\ tpc = "idle"
    /\ tpos = TournamentStartPos
    /\ th = NewTournament
    /\ trun_result = ""
    /\ tally = NoTally
    /\ env = NoEnv
    /\ rr = IdleRerun
    /\ toolchains_data = <<>>
    /\ toolchains = <<>>
    /\ lpc = IdleLoader

SpecTestFile == TFInit /\ [][TestFileInit]_vars

\* One run: a toolchain, a test and the command line's timeout are chosen,
\* the harness builds the runner, the steps execute, the driver reports.
RunInit ==
    /\ disk = IdleDisk
    /\ tf = NotConstructed
    /\ cli_timeout = CliTimeout
    /\ tc_runner \in {new_tc_runner(tc, CliTimeout) : tc \in ToolChains}
    /\ test \in [expected_out : ExpectedOuts, input_stream : {<<1>>}]
    /\ run = PendingRun
    /\ report = ""
    /\ mcfg = IdleMainConfig
    /\ mpc = "idle"
    /\ mpos = MainStartPos
    /\ pass_count = -1
    /\ exit_status = -1
    /\ m_not_passed = 0
    /\ hmode = "regular"
    /\ hcfg = IdleHarnessConfig
    /\ hpc = "idle"
    /\ hpos = HarnessStartPos
    /\ h = NewHarness
    /\ test_result = NoResult
    /\ run_result = ""
    /\ g = NoHistory
    /\ tcfg = IdleTournamentConfig
    /\ tpc = "idle"
    /\ tpos = TournamentStartPos
    /\ th = NewTournament
    /\ trun_result = ""
    /\ tally = NoTally
    /\ env = NoEnv
    /\ rr = IdleRerun
    /\ toolchains_data = <<>>
    /\ toolchains = <<>>
    /\ lpc = IdleLoader

\* harness.py lines 73-74: the harness receives what run() returns and
\* processes it
RunReturns ==
    /\ Finished(run)
    /\ report = "" /\ g.ran = 0
    /\ test_result' = ToolChainRunner_run(run)
    /\ h' = process_test_result(hmode, h, ToolChainRunner_run(run))
    /\ g' = [g EXCEPT !.ran = 1]
    /\ UNCHANGED <<hmode, hcfg, hpc, hpos, run_result>>
    /\ UNCHANGED <<tfVars, runVars, mainVars, tourVars, rerunVars, loadVars>>

RunNext ==
    \/ StartRun \/ StepLaunch \/ ProcessExits \/ TimeoutFires \/ ExecStep
    \/ MainReport \/ RunReturns

SpecRunner == RunInit /\ [][RunNext]_vars

\* main(): a configuration is chosen, then main() runs to its exit.
MainInit ==
    /\ disk = IdleDisk
    /\ tf = NotConstructed
    /\ cli_timeout = CliTimeout
    /\ tc_runner = IdleRunner
    /\ test = IdleTest
    /\ run = PendingRun
    /\ report = ""
    /\ mcfg \in MainConfigs
    /\ mpc = "load"
    /\ mpos = MainStartPos
    /\ pass_count = -1
    /\ exit_status = -1
    /\ m_not_passed = 0
    /\ hmode = "regular"
    /\ hcfg = IdleHarnessConfig
    /\ hpc = "idle"
    /\ hpos = HarnessStartPos
    /\ h = NewHarness
    /\ test_result = NoResult
    /\ run_result = ""
    /\ g = NoHistory
    /\ tcfg = IdleTournamentConfig
    /\ tpc = "idle"
    /\ tpos = TournamentStartPos
    /\ th = NewTournament
    /\ trun_result = ""
    /\ tally = NoTally
    /\ env = NoEnv
    /\ rr = IdleRerun
    /\ toolchains_data = <<>>
    /\ toolchains = <<>>
    /\ lpc = IdleLoader

MainNext == MainLoad \/ MainForExe \/ MainForToolchain \/ MainForTest \/ MainExit

SpecMain == MainInit /\ [][MainNext]_vars

\* A harness run: a class and a config are chosen, then run() iterates.
HarnessInit ==
    /\ disk = IdleDisk
    /\ tf = NotConstructed
    /\ cli_timeout = CliTimeout
    /\ tc_runner = IdleRunner
    /\ test = IdleTest
    /\ run = PendingRun
    /\ report = ""
    /\ mcfg = IdleMainConfig
    /\ mpc = "idle"
    /\ mpos = MainStartPos
    /\ pass_count = -1
    /\ exit_status = -1
    /\ m_not_passed = 0
    /\ hmode \in {"regular", "memcheck", "perf"}
    /\ hcfg \in HarnessConfigs
    /\ hpc = "run"
    /\ hpos = HarnessStartPos
    /\ h = NewHarness
    /\ test_result = NoResult
    /\ run_result = ""
    /\ g = NoHistory
    /\ tcfg = IdleTournamentConfig
    /\ tpc = "idle"
    /\ tpos = TournamentStartPos
    /\ th = NewTournament
    /\ trun_result = ""
    /\ tally = NoTally
    /\ env = NoEnv
    /\ rr = IdleRerun
    /\ toolchains_data = <<>>
    /\ toolchains = <<>>
    /\ lpc = IdleLoader

HarnessNext ==
    HRun \/ HForExe \/ HForToolchain \/ HForPackage \/ HForSubpackage \/ HForTest

SpecHarness == HarnessInit /\ [][HarnessNext]_vars

\* A tournament: a config is chosen, then TournamentHarness.run() iterates.
TournamentInit ==
    /\ disk = IdleDisk
    /\ tf = NotConstructed
    /\ cli_timeout = CliTimeout
    /\ tc_runner = IdleRunner
    /\ test = IdleTest
    /\ run = PendingRun
    /\ report = ""
    /\ mcfg = IdleMainConfig
    /\ mpc = "idle"
    /\ mpos = MainStartPos
    /\ pass_count = -1
    /\ exit_status = -1
    /\ m_not_passed = 0
    /\ hmode = "regular"
    /\ hcfg = IdleHarnessConfig
    /\ hpc = "idle"
    /\ hpos = HarnessStartPos
    /\ h = NewHarness
    /\ test_result = NoResult
    /\ run_result = ""
    /\ g = NoHistory
    /\ tcfg \in TournamentConfigs
    /\ tpc = "run"
    /\ tpos = TournamentStartPos
    /\ th = NewTournament
    /\ trun_result = ""
    /\ tally = NoTally
    /\ env = NoEnv
    /\ rr = IdleRerun
    /\ toolchains_data = <<>>
    /\ toolchains = <<>>
    /\ lpc = IdleLoader

TournamentNext ==
    TRun \/ TForToolchain \/ TForExe \/ TForPackage \/ TForSubpackage \/ TForTest

SpecTournament == TournamentInit /\ [][TournamentNext]_vars

(***************************************************************************)
(* Claims about fixture resolution (SpecTestFile).                         *)
(***************************************************************************)
\* The sibling file get_file_contents reads: the copy in the symmetric
\* directory when it exists, otherwise the one beside the test.
SiblingOut(d) == IF d.sym_out.exists THEN d.sym_out ELSE d.same_out

SiblingIns(d) == IF d.sym_ins.exists THEN d.sym_ins ELSE d.same_ins

HasDirective(d, prefix) ==
    \E i \in 1..Len(d.lines) :
        /\ d.lines[i].directive = prefix
        /\ d.lines[i].comment_index # -1
        /\ d.lines[i].comment_index <= d.lines[i].directive_index

\* C9 as stated: a test with a (readable) sibling .out file and a CHECK:
\* directive gets the .out file's contents as its expected output, whatever
\* those contents are.
C9_Original ==
    (/\ tf.state = "constructed"
     /\ SiblingOut(disk).exists /\ SiblingOut(disk).readable
     /\ HasDirective(disk, "CHECK:"))
    => tf.expected_out = PyBytes(SiblingOut(disk).data)

\* C9 amended: a test with a readable, non-empty sibling .out file and a
\* CHECK: directive gets the .out file's contents as its expected output,
\* never the directive's.
C9_OutFileWins ==
    (/\ tf.state = "constructed"
     /\ SiblingOut(disk).exists /\ SiblingOut(disk).readable
     /\ SiblingOut(disk).data # <<>>
     /\ HasDirective(disk, "CHECK:"))
    => tf.expected_out = PyBytes(SiblingOut(disk).data)

\* C9 witness: a constructed test whose .out file and CHECK: directive are
\* both non-empty and differ, resolved to the .out file's bytes.
C9_Witness ==
    /\ tf.state = "constructed"
    /\ SiblingOut(disk).exists /\ SiblingOut(disk).readable
    /\ SiblingOut(disk).data # <<>>
    /\ HasDirective(disk, "CHECK:")
    /\ Truthy(get_directive_contents(disk.lines, "CHECK:"))
    /\ get_directive_contents(disk.lines, "CHECK:") # PyBytes(SiblingOut(disk).data)
    /\ tf.expected_out = PyBytes(SiblingOut(disk).data)

\* The CHECK_FILE: / INPUT_FILE: reference is the tier that decides, and the
\* file it names does not exist.
MissingCheckFile(d) ==
    /\ ~Truthy(get_file_contents(d.sym_out, d.same_out))
    /\ ~Truthy(get_directive_contents(d.lines, "CHECK:"))
    /\ Truthy(get_directive_contents(d.lines, "CHECK_FILE:"))
    /\ ~d.check_ref.exists

MissingInputFile(d) ==
    /\ ~Truthy(get_file_contents(d.sym_ins, d.same_ins))
    /\ ~Truthy(get_directive_contents(d.lines, "INPUT:"))
    /\ Truthy(get_directive_contents(d.lines, "INPUT_FILE:"))
    /\ ~d.input_ref.exists

UnreadableSibling(f) == f.exists /\ ~f.readable

\* C10: when the file the test refers to for its expected output or input
\* stream is missing (a CHECK_FILE: / INPUT_FILE: target, or an existing
\* sibling that cannot be read), construction reports a load-time error and
\* the attribute holds the error, never empty or absent bytes.
C10_MissingFileIsLoadError ==
    tf.state = "constructed" =>
        /\ (MissingCheckFile(disk) \/ UnreadableSibling(SiblingOut(disk)))
              => (tf.errors # <<>> /\ tf.expected_out.kind = "TestFileError")
        /\ (MissingInputFile(disk) \/ UnreadableSibling(SiblingIns(disk)))
              => (tf.errors # <<>> /\ tf.input_stream.kind = "TestFileError")

(***************************************************************************)
(* Claims about one run (SpecRunner).                                      *)
(***************************************************************************)
Steps == tc_runner.tc.steps

\* Log entry k is the last step that was executed, the run has failed on
\* it, and neither result type reports a pass.
HaltedAt(k) ==
    /\ k = Len(run.log)
    /\ run.step = run.log[k].step
    /\ run.state = "FAILED"
    /\ TestResult(run).failing_step = Steps[run.log[k].step].name
    /\ ~TestResult(run).did_pass
    /\ ~ToolchainResult(run).success
    /\ report # "PASS"

\* C1: a step with allow_error false that exits with a non-zero code is the
\* last step executed; the run is FAILED and its failing step is that
\* step's name.
C1_FatalExitHalts ==
    \A k \in 1..Len(run.log) :
        (/\ ~Steps[run.log[k].step].allow_error
         /\ ~run.log[k].timed_out
         /\ run.log[k].exit_code # 0)
        => (HaltedAt(k) /\ run.reason = "non-zero-exit")

\* C1 witness: the first step of a longer chain exited non-zero with
\* allow_error false, and the driver has reported the failed chain.
C1_Witness ==
    /\ Len(Steps) > 1
    /\ Len(run.log) = 1
    /\ ~Steps[1].allow_error
    /\ run.log[1].exit_code = 1
    /\ run.state = "FAILED"
    /\ run.failing_step = Steps[1].name
    /\ run.gen_output = test.expected_out
    /\ report = "Toolchain Failed"

\* C2: a step that outlives the command line's timeout is the last step
\* executed, whatever its allow_error; the run is FAILED with reason
\* timeout and the step is its failing step.
C2_TimeoutHalts ==
    \A k \in 1..Len(run.log) :
        run.log[k].exceeded => (HaltedAt(k) /\ run.reason = "timeout")

\* C2 witness: a step with allow_error true timed out before the end of the
\* chain and the run failed on it.
C2_Witness ==
    /\ Len(Steps) > 1
    /\ Len(run.log) = 1
    /\ Steps[1].allow_error
    /\ run.log[1].exceeded
    /\ run.state = "FAILED"
    /\ run.reason = "timeout"
    /\ run.failing_step = Steps[1].name
    /\ report = "Toolchain Failed"

\* Every step ran to its end and none was fatal.
AllStepsCompleted ==
    /\ Terminal(run)
    /\ Len(run.log) = Len(Steps)
    /\ run.reason \notin {"timeout", "non-zero-exit"}

SameBytes(a, b) == Len(a) = Len(b) /\ \A i \in 1..Len(a) : a[i] = b[i]

\* C8: when all steps completed, the run is PASSED, and the driver logs a
\* pass, exactly when the generated and the expected output have the same
\* length and the same byte at every offset.
C8_ByteExactVerdict ==
    AllStepsCompleted =>
        /\ run.state = "PASSED" <=> SameBytes(run.gen_output, test.expected_out)
        /\ TestResult(run).did_pass <=> SameBytes(run.gen_output, test.expected_out)
        /\ report # "" =>
              (report = "PASS" <=> SameBytes(run.gen_output, test.expected_out))
        /\ report \in {"", "PASS", "FAIL"}

\* C8 witness: a completed run whose output differs from the expected
\* output in its last byte only, reported as a failure.
C8_Witness ==
    /\ AllStepsCompleted
    /\ Len(run.gen_output) = MaxLen
    /\ Len(test.expected_out) = MaxLen
    /\ \A i \in 1..(MaxLen - 1) : run.gen_output[i] = test.expected_out[i]
    /\ run.gen_output[MaxLen] # test.expected_out[MaxLen]
    /\ run.state = "FAILED"
    /\ report = "FAIL"

(***************************************************************************)
(* Claims about main() (SpecMain).                                         *)
(***************************************************************************)
\* C3: main() exits with code 0 only if every test of every executable and
\* every toolchain passed.
C3_ExitZeroOnlyIfAllPassed ==
    (mpc = "done" /\ exit_status = 0) => m_not_passed = 0

(***************************************************************************)
(* Claims about TestHarness.run / iterate (SpecHarness).                   *)
(***************************************************************************)
\* C4: RegularHarness.run() returns True if and only if every test that
\* was run passed.
C4_RunTrueIffAllPassed ==
    (hmode = "regular" /\ hpc = "returned")
        => (run_result = "True" <=> g.not_passed = 0)

\* C5: when the runner returned no TestResult for some test, the run's
\* overall result is unsuccessful, and the test count of the executable
\* holds every test that was run.
C5_MissingResultFailsRun ==
    (hpc = "returned" /\ g.missing > 0)
        => (run_result = "False" /\ h.exe.pass_count < h.exe.test_count)

RECURSIVE SumPairs(_)
SumPairs(pairs) ==
    IF pairs = <<>> THEN Zero ELSE Plus(Head(pairs), SumPairs(Tail(pairs)))

PairOk(c) == 0 <= c.pass_count /\ c.pass_count <= c.test_count

\* Each scope's pair is the sum of the pairs of the scopes closed inside
\* it, and pass <= total at every scope.
C6_Sums ==
    /\ h.pkg = SumPairs(g.spkgs)
    /\ h.tc = SumPairs(g.pkgs)
    /\ h.exe = SumPairs(g.tcs)
    /\ PairOk(h.counters) /\ PairOk(h.pkg) /\ PairOk(h.tc) /\ PairOk(h.exe)
    /\ hpc = "test" => h.counters.test_count = hpos.test

\* A test run adds one to the subpackage's test counter, and one to its
\* pass counter exactly when the result passed.
C6_Step ==
    g'.ran = g.ran + 1 =>
        /\ h'.counters.test_count = h.counters.test_count + 1
        /\ h'.counters.pass_count = h.counters.pass_count
              + (IF test_result'.kind = "TestResult" /\ test_result'.did_pass
                 THEN 1 ELSE 0)

\* C6: in TestHarness.iterate every test run increments the subpackage's
\* test counter once and its pass counter once iff the result passed; the
\* pair of each package, toolchain and executable is the sum of the pairs
\* of the scopes nested in it; pass <= total at every scope.
C6_NestedCounters == []C6_Sums /\ [][C6_Step]_vars

\* C6 witness: a finished run over several toolchains and a package with
\* two subpackages, with a missing result among passing ones.
C6_Witness ==
    /\ hpc = "returned"
    /\ Len(g.tcs) > 1
    /\ Len(g.pkgs) > 1
    /\ g.missing > 0
    /\ h.exe.pass_count > 0
    /\ h.exe.pass_count < h.exe.test_count

(***************************************************************************)
(* Claims about TournamentHarness (SpecTournament).                        *)
(***************************************************************************)
Defenders == {th.defending_exes[i] : i \in 1..Len(th.defending_exes)}

Attackers == {th.attacking_pkgs[i].name : i \in 1..Len(th.attacking_pkgs)}

\* the toolchain at tpos.tc has been processed and its table written
ToolchainProcessed == tpc \in {"tc", "returned"} /\ tpos.tc >= 1 /\ ~th.raised

\* C7: once a toolchain is processed, the cell of every (defending
\* executable, attacking package) pair reads "<p> / <t>" for the t tests of
\* the package run against the executable and the p of them that passed;
\* a cell written earlier reads the same, so no count of another pair is
\* in it.
C7_CellIsPassOverTotal ==
    tpos.tc >= 1 =>
        \A e \in Defenders, p \in Attackers :
            /\ ToolchainProcessed => th.tc_table[e][p] # ""
            /\ th.tc_table[e][p] # "" =>
                  /\ th.tc_table[e][p] =
                        ToString(tally[e][p].pass_count) \o " / "
                            \o ToString(tally[e][p].test_count)
                  /\ tally[e][p].pass_count <= tally[e][p].test_count

\* C7 witness: a processed toolchain in which an executable failed exactly
\* 2 of the 5 tests of one package and passed the other package's test.
C7_Witness ==
    /\ ToolchainProcessed
    /\ \E e \in Defenders :
          /\ th.tc_table[e][<<66>>] = "3 / 5"
          /\ th.tc_table[e][<<97>>] = "1 / 1"

\* The tests a complete tournament runs: every test of every package,
\* against every executable, under every toolchain.
TestsOfTournament ==
    tcfg.n_toolchains * Len(tcfg.executables)
        * SumSeq([i \in 1..Len(tcfg.packages) |-> n_tests(tcfg.packages[i])])

\* C11: a failure confined to one test never aborts the run: when run()
\* returns, every test of every package has been run against every
\* executable under every toolchain.
C11_TestFailureNeverAborts ==
    tpc = "returned" => th.ran = TestsOfTournament

(***************************************************************************)
(* Further claims about one run (SpecRunner).                              *)
(***************************************************************************)
\* Log entry k is a non-zero exit of a step whose allow_error is true.
AllowedError(k) ==
    /\ Steps[run.log[k].step].allow_error
    /\ ~run.log[k].timed_out
    /\ run.log[k].exit_code # 0

ArtifactAt(path) ==
    IF path \in DOMAIN run.scratch THEN run.scratch[path] ELSE <<>>

\* C13: the buffer of the running step is the test's input stream when the
\* step declares uses_input_stream, whatever its position; otherwise it is
\* empty for the first step and, for a later one, the output captured from
\* the preceding step: what that step printed when its output mode is "-",
\* the artifact at its path otherwise, which is what its program wrote.
C13_StepInputBuffer ==
    run.state = "RUNNING" =>
        /\ run.step = Len(run.log) + 1
        /\ run.input =
              IF Steps[run.step].uses_ins THEN test.input_stream
              ELSE IF run.step = 1 THEN <<>>
              ELSE IF Steps[run.step - 1].output = "-" THEN run.last.stdout
              ELSE ArtifactAt(Steps[run.step - 1].output)
        /\ (/\ run.step > 1
            /\ Steps[run.step - 1].output # "-"
            /\ run.last.wrote # <<>>)
              => ArtifactAt(Steps[run.step - 1].output) = run.last.wrote[1]

\* C13 witness: the first step's output mode is a path; it printed one
\* thing and wrote another, and the second step, launched, is given what
\* it wrote.
C13_Witness ==
    /\ run.state = "RUNNING"
    /\ run.step = 2
    /\ Steps[1].output = "a.out"
    /\ ~Steps[2].uses_ins
    /\ run.last.stdout = <<0>>
    /\ run.last.wrote = << <<1, 0>> >>
    /\ run.input = <<1, 0>>
    /\ run.proc.step = 2

C14_States ==
    /\ run.state \in {"PENDING", "RUNNING", "PASSED", "FAILED"}
    /\ run.state = "PENDING" => run.log = <<>> /\ report = "" /\ g.ran = 0
    /\ run.state = "RUNNING" =>
          run.step \in 1..Len(Steps) /\ report = "" /\ g.ran = 0
    /\ report # "" => Terminal(run)
    /\ g.ran = 1 =>
          /\ Terminal(run)
          /\ test_result.kind = "TestResult"
          /\ test_result.did_pass = (run.state = "PASSED")
          /\ test_result.gen_output = run.gen_output
          /\ h.counters.test_count = 1

C14_Step ==
    /\ run.state = "PENDING" =>
          \/ run' = run
          \/ run'.state = "RUNNING" /\ run'.step = 1
    /\ run.state = "RUNNING" =>
          \/ run'.state = "RUNNING" /\ run'.step = run.step /\ run'.log = run.log
          \/ /\ run'.state = "RUNNING" /\ run'.step = run.step + 1
             /\ Len(run'.log) = Len(run.log) + 1
          \/ Terminal(run') /\ Len(run'.log) = Len(run.log) + 1
    /\ Terminal(run) => run' = run
    /\ report # "" => report' = report
    /\ report' # report => TestResult(run') = TestResult(run)
    /\ g.ran = 1 => test_result' = test_result /\ h' = h

C20_TimeoutKillsFirst ==
    /\ run.proc.timer_fired => run.proc.state = "killed"
    /\ \A k \in 1..Len(run.log) :
          run.log[k].timed_out =>
              /\ run.proc.step = run.log[k].step
              /\ run.proc.state = "killed"
              /\ run.state = "FAILED" /\ run.reason = "timeout"

\* C20 witness: the first step of a longer chain timed out; its process
\* was killed and the failure is recorded.
C20_Witness ==
    /\ Len(Steps) > 1
    /\ Len(run.log) = 1
    /\ run.log[1].timed_out
    /\ run.proc = [step |-> 1, state |-> "killed", timer_fired |-> TRUE]
    /\ run.state = "FAILED"
    /\ run.reason = "timeout"

(***************************************************************************)
(* Claims about MemoryCheckHarness (SpecHarness).                          *)
(***************************************************************************)
\* Inside an executable the leak tally and its test count hold the
\* executable's results so far; after post_executable_hook the last report
\* holds the executable's leaking results and tests, and both are zero
\* again.
C15_Tally ==
    hmode = "memcheck" =>
        /\ hpc \in {"tc", "pkg", "spkg", "test"} =>
              /\ Len(h.leak_tests) = g.leaks
              /\ h.test_count = g.exe_ran
              /\ Len(h.leak_log) = hpos.exe - 1
        /\ hpc \in {"exe", "returned"} =>
              /\ h.leak_tests = <<>> /\ h.test_count = 0
              /\ Len(h.leak_log) = hpos.exe
              /\ hpos.exe >= 1 => h.leak_log[hpos.exe] = <<g.leaks, g.exe_ran>>

\* A passing result that leaked adds to the passes and to the leaks, and
\* not to the failures.
C15_Step ==
    (/\ hmode = "memcheck"
     /\ g'.ran = g.ran + 1
     /\ test_result'.kind = "TestResult"
     /\ test_result'.did_pass /\ test_result'.memory_leak)
    => /\ h'.counters.pass_count = h.counters.pass_count + 1
       /\ h'.leak_tests = Append(h.leak_tests, test_result')
       /\ h'.failures = h.failures

\* C15: in MemoryCheckHarness the leak tally reported at the end of an
\* executable is the number of the executable's results with a leak
\* signal, passing or failing; a passing result with a leak counts as a
\* pass and as a leak and is no failure; the tally and its test count are
\* zero again for the next executable.
C15_LeakTallyPerExecutable == []C15_Tally /\ [][C15_Step]_vars

\* C15 witness: two executables; the first had a passing result that
\* leaked and a failing one that leaked, the second no leak at all.
C15_Witness ==
    /\ hmode = "memcheck"
    /\ hpc = "returned"
    /\ Len(h.leak_log) = 2
    /\ h.leak_log[1][1] = 2
    /\ h.leak_log[2][1] = 0
    /\ h.leak_log[2][2] > 0
    /\ Len(h.failures) = 1
    /\ h.exe.pass_count = h.exe.test_count

\* C16: fed the same results, MemoryCheckHarness holds the same counters
\* and failures as RegularHarness after every result, and run() returns
\* what RegularHarness.run() returns.
C16_MemoryCheckRefinesRegular ==
    hmode = "memcheck" =>
        /\ h.counters = g.reg.counters
        /\ h.failures = g.reg.failures
        /\ hpc = "returned" =>
              run_result = (IF Len(g.reg.failures) = 0 THEN "True" ELSE "False")

\* C16 witness: a finished leak-tracking run that saw a missing result, a
\* failing result with a leak, and passing results.
C16_Witness ==
    /\ hmode = "memcheck"
    /\ hpc = "returned"
    /\ g.missing > 0
    /\ Len(h.failures) > 0
    /\ h.leak_log[1][1] > 0
    /\ h.exe.pass_count > 0
    /\ run_result = "False"

(***************************************************************************)
(* Further claims about TournamentHarness (SpecTournament).                *)
(***************************************************************************)
\* C17: the feedback file of each (defending executable, toolchain) holds
\* one record per failing result of that executable and none for a passing
\* one; the failure log holds one line <toolchain, package, test path> per
\* failing result of the solution executable when a failure log is
\* configured, and nothing else.
C17_FeedbackAndFailureLog ==
    /\ \A f \in FeedbackFiles : th.feedback[f] = th.failed[f]
    /\ th.failure_log = IF tcfg.failure_log THEN th.ref_failed ELSE <<>>

\* C17 witness: the solution executable and another executable each failed
\* a test and passed others; the log has the solution executable's line
\* only.
C17_Witness ==
    /\ tcfg.failure_log
    /\ Len(th.failure_log) = 1
    /\ th.failure_log[1][1] = 1
    /\ th.failure_log[1][2] \in Attackers
    /\ th.feedback[<<tcfg.solution_exe, 1>>] = 1
    /\ \E f \in FeedbackFiles : f[1] # tcfg.solution_exe /\ th.feedback[f] = 1
    /\ th.ran > th.not_passed + 1

\* C18: TournamentHarness.run() returns True only if every test run
\* against every executable under every toolchain passed.
C18_TournamentSuccessOnlyIfAllPassed ==
    (tpc = "returned" /\ trun_result = "True") => th.not_passed = 0

\* <<executable, toolchain, package, subpackage, test>> positions, compared
\* from the left
RECURSIVE LexLess(_, _)
LexLess(a, b) ==
    IF a = <<>> \/ b = <<>> THEN FALSE
    ELSE IF Head(a) # Head(b) THEN Head(a) < Head(b)
    ELSE LexLess(Tail(a), Tail(b))

\* C19: tests are run in the nested order executables, toolchains,
\* packages, subpackages, tests: of two tests run one after the other, the
\* later one is further on in that order.
C19_ExecutablesOutermost ==
    th.ran >= 2 => LexLess(th.prev, th.last)

(***************************************************************************)
(* One runner used for several tests in a row (harness.py lines 59-74:     *)
(* tc_runner is built once per toolchain and run on every test).  The      *)
(* programs are the environment: a program given the same input again does *)
(* what it did before.                                                     *)
(***************************************************************************)
\* What a program does when it is given an input buffer with the scratch
\* location in a given state: it cannot be launched, it outlives every
\* timeout, or it exits with a code, having printed and written something.
EnvOuts == {<<>>, <<1>>, <<0, 1>>}

EnvStdouts(step) == IF step.output = "-" THEN EnvOuts ELSE {<<0>>}

EnvWrites(step) ==
    IF step.output = "-" THEN {<<>>} ELSE {<<>>, << <<1>> >>, << <<0, 1>> >>}

EnvOutcomes(step) ==
    {[launched |-> FALSE, duration |-> 1, exit_code |-> 0, out |-> <<>>, wrote |-> <<>>],
     [launched |-> TRUE, duration |-> MaxDuration, exit_code |-> 0, out |-> <<>>,
      wrote |-> <<>>]}
        \cup [launched : {TRUE}, duration : {1}, exit_code : {0, 1},
              out : EnvStdouts(step), wrote : EnvWrites(step)]

RerunTests == [expected_out : {<<>>, <<1>>}, input_stream : {<<1>>, <<0, 1>>}]

\* the toolchains of one or two steps
RerunToolChains == {tc \in ToolChains : Len(tc.steps) <= 2}

\* the runner is handed the next test
RerunStart ==
    /\ rr.phase = "ready"
    /\ run' = start_run(run, tc_runner, test)
    /\ rr' = [rr EXCEPT !.phase = "running"]
    /\ UNCHANGED <<cli_timeout, tc_runner, test, report, env>>
    /\ UNCHANGED <<tfVars, mainVars, harnessVars, tourVars, loadVars>>

\* the running step's program is executed on the step's input buffer,
\* with the scratch location as the run finds it
RerunExec ==
    /\ rr.phase = "running"
    /\ run.state = "RUNNING"
    /\ LET key == <<run.step, run.input, run.scratch>>
           step == tc_runner.tc.steps[run.step]
       IN  \E o \in EnvOutcomes(step) :
              /\ key \in DOMAIN env => o = env[key]
              /\ env' = IF key \in DOMAIN env THEN env ELSE env @@ (key :> o)
              /\ run' = IF o.launched
                        THEN AfterStep(Execute(run, step, o.out, o.wrote), tc_runner,
                                       test, o.duration, o.exit_code, o.out)
                        ELSE launch_failed(run)
    /\ UNCHANGED <<cli_timeout, tc_runner, test, report, rr>>
    /\ UNCHANGED <<tfVars, mainVars, harnessVars, tourVars, loadVars>>

\* what the run produced is returned; the harness goes on to the next test
RerunFinish ==
    /\ rr.phase = "running"
    /\ Finished(run)
    /\ IF rr.next < Len(rr.tests)
       THEN /\ rr' = [rr EXCEPT !.results = Append(@, ToolChainRunner_run(run)),
                                !.next = @ + 1, !.phase = "ready"]
            /\ test' = rr.tests[rr.next + 1]
       ELSE /\ rr' = [rr EXCEPT !.results = Append(@, ToolChainRunner_run(run)),
                                !.phase = "done"]
            /\ UNCHANGED test
    /\ UNCHANGED <<cli_timeout, tc_runner, run, report, env>>
    /\ UNCHANGED <<tfVars, mainVars, harnessVars, tourVars, loadVars>>

\* A toolchain and two tests are chosen; the runner runs the first test,
\* the second, and the first again.
RerunInit ==
    /\ disk = IdleDisk
    /\ tf = NotConstructed
    /\ cli_timeout = CliTimeout
    /\ tc_runner \in {new_tc_runner(tc, CliTimeout) : tc \in RerunToolChains}
    /\ rr \in {[tests |-> <<a, b, a>>, next |-> 1, phase |-> "ready", results |-> <<>>] :
                  a \in RerunTests, b \in RerunTests}
    /\ test = rr.tests[1]
    /\ run = PendingRun
    /\ report = ""
    /\ mcfg = IdleMainConfig
    /\ mpc = "idle"
    /\ mpos = MainStartPos
    /\ pass_count = -1
    /\ exit_status = -1
    /\ m_not_passed = 0
    /\ hmode = "regular"
    /\ hcfg = IdleHarnessConfig
    /\ hpc = "idle"
    /\ hpos = HarnessStartPos
    /\ h = NewHarness
    /\ test_result = NoResult
    /\ run_result = ""
    /\ g = NoHistory
    /\ tcfg = IdleTournamentConfig
    /\ tpc = "idle"
    /\ tpos = TournamentStartPos
    /\ th = NewTournament
    /\ trun_result = ""
    /\ tally = NoTally
    /\ env = NoEnv
    /\ toolchains_data = <<>>
    /\ toolchains = <<>>
    /\ lpc = IdleLoader

RerunNext == RerunStart \/ RerunExec \/ RerunFinish

SpecRerun == RerunInit /\ [][RerunNext]_vars

ToolchainNames == <<"gcc", "llvm">>

StepLists == UNION {StepsData(n) : n \in 0..MaxSteps}

ToolchainsData ==
    UNION {[1..k -> StepLists] : k \in 1..Len(ToolchainNames)}

\* Config.parse_toolchains
parse_toolchains(data) ==
    [k \in 1..Len(data) |-> parse_toolchain(data[k][1], data[k][2])]

\* ToolChain.__iter__, __len__ and __getitem__
ToolChain_iter(tc) == tc.steps

ToolChain_len(tc) == Len(tc.steps)

ToolChain_getitem(tc, index) == tc.steps[index + 1]

\* Config.__init__: self.toolchains = self.parse_toolchains(...)
LoadConfig ==
    /\ lpc.at = "load"
    /\ toolchains' = parse_toolchains(toolchains_data)
    /\ lpc' = [lpc EXCEPT !.at = "loaded"]
    /\ UNCHANGED toolchains_data
    /\ UNCHANGED <<tfVars, runVars, mainVars, harnessVars, tourVars, rerunVars>>

\* a user of the config reads the next toolchain: list(tc), and tc[i] for
\* every i in range(len(tc))
ReadToolchain ==
    /\ lpc.at = "loaded"
    /\ Len(lpc.read) < Len(toolchains)
    /\ LET tc == toolchains[Len(lpc.read) + 1]
       IN  lpc' = [lpc EXCEPT !.read =
                      Append(@, [iterated |-> ToolChain_iter(tc),
                                 indexed |-> [i \in 1..ToolChain_len(tc) |->
                                                 ToolChain_getitem(tc, i - 1)]])]
    /\ UNCHANGED <<toolchains_data, toolchains>>
    /\ UNCHANGED <<tfVars, runVars, mainVars, harnessVars, tourVars, rerunVars>>

\* A config file is chosen, the loader parses it, the toolchains are read.
LoadInit ==
    /\ disk = IdleDisk
    /\ tf = NotConstructed
    /\ cli_timeout = CliTimeout
    /\ tc_runner = IdleRunner
    /\ test = IdleTest
    /\ run = PendingRun
    /\ report = ""
    /\ mcfg = IdleMainConfig
    /\ mpc = "idle"
    /\ mpos = MainStartPos
    /\ pass_count = -1
    /\ exit_status = -1
    /\ m_not_passed = 0
    /\ hmode = "regular"
    /\ hcfg = IdleHarnessConfig
    /\ hpc = "idle"
    /\ hpos = HarnessStartPos
    /\ h = NewHarness
    /\ test_result = NoResult
    /\ run_result = ""
    /\ g = NoHistory
    /\ tcfg = IdleTournamentConfig
    /\ tpc = "idle"
    /\ tpos = TournamentStartPos
    /\ th = NewTournament
    /\ trun_result = ""
    /\ tally = NoTally
    /\ env = NoEnv
    /\ rr = IdleRerun
    /\ toolchains_data \in
          {[k \in 1..Len(lists) |-> <<ToolchainNames[k], lists[k]>>] :
              lists \in ToolchainsData}
    /\ toolchains = <<>>
    /\ lpc = [at |-> "load", read |-> <<>>]

LoadNext == LoadConfig \/ ReadToolchain

SpecLoad == LoadInit /\ [][LoadNext]_vars

\* The steps of toolchain k are the config's steps, in the config's order.
StepsInLoadOrder(k) ==
    /\ toolchains[k].name = toolchains_data[k][1]
    /\ Len(toolchains[k].steps) = Len(toolchains_data[k][2])
    /\ \A i \in 1..Len(toolchains[k].steps) :
          toolchains[k].steps[i].name = toolchains_data[k][2][i].stepName

\* C22: every ToolChain of the loaded config has at least one step, its
\* steps are in the order of the config file, and iterating and indexing
\* it yield the steps in that order.
C22_ToolChainHasOrderedSteps ==
    lpc.at = "loaded" =>
        /\ Len(toolchains) = Len(toolchains_data)
        /\ \A k \in 1..Len(toolchains) :
              /\ ToolChain_len(toolchains[k]) >= 1
              /\ StepsInLoadOrder(k)
        /\ \A k \in 1..Len(lpc.read) :
              /\ lpc.read[k].iterated = toolchains[k].steps
              /\ lpc.read[k].indexed = toolchains[k].steps

(***************************************************************************)
(* Further claims about fixture resolution (SpecTestFile).                 *)
(***************************************************************************)
EmptyFile(f) == f.exists /\ f.readable /\ f.data = <<>>

\* a file a tier looks at gives no bytes: it is absent, cannot be read or
\* is empty
NoBytes(f) == ~f.exists \/ ~f.readable \/ f.data = <<>>

\* the bytes of the directive's lines, joined
DirectiveBytes(d, prefix) == get_directive_contents(d.lines, prefix).data

\* The three tiers of one attribute: an empty sibling file gives way to the
\* directive, a directive without bytes to the referenced file, and with
\* no bytes in any tier the result is b''.  A reference to a file that
\* does not exist is the load-time error of the fixture and is left out.
FallsThrough(result, sym, same, d, directive, ref_directive, ref) ==
    LET sibling == IF sym.exists THEN sym ELSE same
    IN  /\ (EmptyFile(sibling) /\ DirectiveBytes(d, directive) # <<>>)
              => result = PyBytes(DirectiveBytes(d, directive))
        /\ (/\ NoBytes(sibling)
            /\ DirectiveBytes(d, directive) = <<>>
            /\ DirectiveBytes(d, ref_directive) # <<>>
            /\ ref.exists /\ ref.readable)
              => result = PyBytes(ref.data)
        /\ (/\ NoBytes(sibling)
            /\ DirectiveBytes(d, directive) = <<>>
            /\ \/ DirectiveBytes(d, ref_directive) = <<>>
               \/ ref.exists /\ NoBytes(ref))
              => result = PyBytes(<<>>)

\* C23: the expected output and the input stream fall through on an empty
\* result: an empty sibling .out/.ins file gives way to the CHECK:/INPUT:
\* directive, a directive without bytes to the CHECK_FILE:/INPUT_FILE:
\* reference, and when no tier yields bytes the result is empty bytes.
C23_EmptyFallsThrough ==
    tf.state = "constructed" =>
        /\ FallsThrough(tf.expected_out, disk.sym_out, disk.same_out, disk,
                        "CHECK:", "CHECK_FILE:", disk.check_ref)
        /\ FallsThrough(tf.input_stream, disk.sym_ins, disk.same_ins, disk,
                        "INPUT:", "INPUT_FILE:", disk.input_ref)

(***************************************************************************)
(* Further claims about TestHarness.iterate (SpecHarness).                 *)
(***************************************************************************)
\* the number of subpackages of the first n packages of the config
SubpackagesOf(n) == SumSeq([i \in 1..n |-> Len(hcfg.packages[i])])

\* The subpackages iterate() has finished at the current position: those
\* of the executables and toolchains done, of the packages done under the
\* current toolchain, and of the current package.
SubpackagesDone ==
    LET inside_tc == hpc \in {"pkg", "spkg", "test"}
        tcs_done == IF inside_tc THEN hpos.tc - 1 ELSE hpos.tc
        pkgs_done == IF hpc \in {"spkg", "test"} THEN hpos.pkg - 1
                     ELSE IF hpc = "pkg" THEN hpos.pkg ELSE 0
        spkgs_done == IF hpc = "test" THEN hpos.spkg - 1
                      ELSE IF hpc = "spkg" THEN hpos.spkg ELSE 0
    IN  IF hpos.exe = 0 THEN 0
        ELSE ((hpos.exe - 1) * hcfg.n_toolchains + tcs_done)
                 * SubpackagesOf(Len(hcfg.packages))
             + SubpackagesOf(pkgs_done) + spkgs_done

\* At every position each executable entered has had its pre hook and
\* each executable left its post hook, once each; the same for the
\* subpackages; and the post hook of the subpackage just left received
\* its final counters.
C24_Paired ==
    LET k == g.hooks
        inside_exe == hpc \in {"tc", "pkg", "spkg", "test"}
        inside_spkg == hpc = "test"
    IN  /\ k.pre_exe = hpos.exe
        /\ k.post_exe = IF inside_exe THEN hpos.exe - 1 ELSE hpos.exe
        /\ k.post_spkg = SubpackagesDone
        /\ k.pre_spkg = IF inside_spkg THEN SubpackagesDone + 1
                        ELSE SubpackagesDone
        /\ (hpc = "spkg" /\ hpos.spkg > 0) =>
               /\ k.received = h.counters
               /\ k.received.test_count = hcfg.packages[hpos.pkg][hpos.spkg]

\* A test is processed only between a pre and a post call of both kinds,
\* and processing it calls no hook.
C24_Step ==
    g'.ran # g.ran =>
        /\ g.hooks.pre_exe = g.hooks.post_exe + 1
        /\ g.hooks.pre_spkg = g.hooks.post_spkg + 1
        /\ g'.hooks = g.hooks

\* C24: in TestHarness.iterate the hooks are nested around the tests:
\* pre_executable_hook runs once before and post_executable_hook once
\* after all tests of each executable; pre_subpackage_hook once before and
\* post_subpackage_hook once after the tests of each subpackage, the
\* latter receiving the subpackage's final counters; no test is processed
\* outside a pre/post pair.
C24_HooksNested == []C24_Paired /\ [][C24_Step]_vars

\* C24 witness: a finished run over two executables and three packages in
\* which tests ran; the last subpackage's post hook received the pair of
\* its one test.
C24_Witness ==
    /\ hpc = "returned"
    /\ hcfg.n_exes = MaxExes
    /\ Len(hcfg.packages) = 3
    /\ g.ran > 0
    /\ g.hooks.pre_exe = MaxExes /\ g.hooks.post_exe = MaxExes
    /\ g.hooks.post_spkg = MaxExes * hcfg.n_toolchains * 4
    /\ g.hooks.pre_spkg = g.hooks.post_spkg
    /\ g.hooks.received.test_count = 1

====
